---- MODULE Spec2Model ----
(***************************************************************************)
(* Verification model of the ClariDoc document question-answering service. *)
(*                                                                         *)
(*   SpecIngest     splitting_text.text_splitting (batched metadata        *)
(*                  extraction, vocabulary file, chunking)                 *)
(*   SpecRerank     Reranker.rerank_documents                              *)
(*   SpecQuery      query_document with RAGService.create_query_embedding, *)
(*                  retrive_documents and answer_query                     *)
(*   SpecSingleton  threads calling EmbeddingModelSingleton().get_model()  *)
(*   SpecPair       two text_splitting runs on two documents, interleaved  *)
(*   SpecFilename   sanitize_filename                                      *)
(*   SpecSession    the session routes: create_session, delete_session,    *)
(*                  upload_document, query_document, get_session_status    *)
(*                                                                         *)
(* Every specification runs one part of the program; the variables of the  *)
(* other parts stay at their idle values.                                  *)
(***************************************************************************)
EXTENDS Integers, Sequences, FiniteSets, TLC

VARIABLES
    \* ---- text_splitting (src/app/ingestion/text_splitter.py) ----
    doc,               \* the List[Document] given to text_splitting
    batch_size,        \* the batch_size argument
    pc,                \* position of text_splitting
    batch_start,       \* loop variable of range(1, len(doc), batch_size)
    known_keywords,    \* the in-memory vocabulary (dict attribute -> list)
    vocabFile,         \* content of the file at Keywordsfile_path
    Document_metadata, \* the record returned by the last extraction call
    all_chunks,        \* the passages collected so far
    extractCalls,      \* number of extractMetadata calls made
    uuidCount,         \* number of uuid4() values drawn
    lastExtraction,    \* outcome of the last extraction call: "none", "ok", "raised"
    lastWrite,         \* content written by the last completed write of the file
    passed_keywords,   \* the known_keywords argument of the last extraction call
    accepted,          \* per attribute, the values put into the vocabulary so far
    \* ---- Reranker.rerank_documents (src/app/retrieval/reranker.py) ----
    retrieved_docs,    \* the candidates given to the Reranker
    response,          \* the model's answer, a string (sequence of characters)
    rr_pc,             \* "ready", "returned" or "raised" ("idle": not run)
    rr_result,         \* the list rerank_documents returned
    rr_error,          \* the exception rerank_documents raised
    \* ---- query_document (src/app/api/v1/routes.py) and
    \*      RAGService (src/app/services/RAG_service.py) ----
    document_uploaded,    \* session.document_uploaded
    vector_store_created, \* session.vector_store_created
    query,                \* query_request.query, a string
    q_pc,                 \* position of query_document
    q_status,             \* HTTP status of the response (0: none yet)
    q_detail,             \* detail of the HTTPException raised
    formatted_metadata,   \* formatted_metadata of the last create_query_embedding
    query_metadata,       \* self.query_metadata
    work,                 \* calls made: embedding, extraction, lookup, answer
    document_info,        \* session.document_info
    rag_chunks,           \* session.rag_service.chunks
    rag_vector_store,     \* session.rag_service.vector_store
    q_vocabFile,          \* content of the file at rag_service.splitter.Keywordsfile_path
    \* ---- EmbeddingModelSingleton (src/app/services/RAG_service.py) ----
    callers,           \* the threads that call EmbeddingModelSingleton().get_model()
    s_instance,        \* cls._instance (0: None)
    s_lock,            \* holder of cls._lock (0: free)
    s_model,           \* _embedding_model of every instance (0: None)
    t_pc,              \* position of every thread
    t_self,            \* the instance a thread's constructor call returned
    t_model,           \* the model get_model returned to a thread
    instancesCreated,  \* number of super().__new__(cls) calls
    loadCalls,         \* number of load_llm() calls
    \* ---- two text_splitting runs on two documents
    \*      (src/app/ingestion/text_splitter.py) ----
    d_source,          \* doc[0].metadata['source'] of every run, a string
    d_doc,             \* the List[Document] of every run
    d_pc,              \* position of every run
    d_batch_start,     \* loop variable of every run
    d_known,           \* known_keywords of every run
    d_meta,            \* Document_metadata of every run
    d_chunks,          \* all_chunks of every run
    d_uuid,            \* number of uuid4() values every run has drawn
    d_alone,           \* per run and attribute, the values the vocabulary
                       \* would hold had the run's extractions been merged alone
    files,             \* the files under app/data/: file name -> content
    \* ---- sanitize_filename (src/app/utils/input_validator.py) ----
    fn_filename,       \* the filename argument, a string
    fn_pc,             \* "called" or "returned" ("idle": not run)
    fn_result,         \* the string sanitize_filename returned
    \* ---- the session routes (src/app/api/v1/routes.py) ----
    sessions,          \* session_manager's sessions: session id -> Session
    tmp_files,         \* the temporary files that exist
    tmp_count,         \* number of temporary files created so far
    last               \* the last request handled and its response

ingestVars == <<doc, batch_size, pc, batch_start, known_keywords, vocabFile,
                Document_metadata, all_chunks, extractCalls, uuidCount,
                lastExtraction, lastWrite, passed_keywords, accepted>>

rerankVars == <<retrieved_docs, response, rr_pc, rr_result, rr_error>>

queryVars == <<document_uploaded, vector_store_created, query, q_pc, q_status,
               q_detail, formatted_metadata, query_metadata, work,
               document_info, rag_chunks, rag_vector_store, q_vocabFile>>

singletonVars == <<callers, s_instance, s_lock, s_model, t_pc, t_self, t_model,
                   instancesCreated, loadCalls>>

pairVars == <<d_source, d_doc, d_pc, d_batch_start, d_known, d_meta, d_chunks,
              d_uuid, d_alone, files>>

filenameVars == <<fn_filename, fn_pc, fn_result>>

sessionVars == <<sessions, tmp_files, tmp_count, last>>

vars == <<ingestVars, rerankVars, queryVars, singletonVars, pairVars,
          filenameVars, sessionVars>>

nonIngestVars == <<rerankVars, queryVars, singletonVars, pairVars, filenameVars,
    sessionVars>>
nonRerankVars == <<ingestVars, queryVars, singletonVars, pairVars, filenameVars,
    sessionVars>>
nonQueryVars == <<ingestVars, rerankVars, singletonVars, pairVars, filenameVars,
    sessionVars>>
nonSingletonVars == <<ingestVars, rerankVars, queryVars, pairVars, filenameVars,
    sessionVars>>
nonPairVars == <<ingestVars, rerankVars, queryVars, singletonVars, filenameVars,
    sessionVars>>
nonFilenameVars == <<ingestVars, rerankVars, queryVars, singletonVars, pairVars,
    sessionVars>>
nonSessionVars == <<ingestVars, rerankVars, queryVars, singletonVars, pairVars,
    filenameVars>>

(***************************************************************************)
(* Bounds of the model.                                                    *)
(***************************************************************************)
MaxSegs == 3        \* a document has 1..MaxSegs segments (pages)
MaxBatch == 2       \* batch_size ranges over 1..MaxBatch
MaxCands == 3       \* the Reranker gets 1..MaxCands candidates
MaxQueryChars == 3  \* a query has 0..MaxQueryChars characters
MaxThreads == 3     \* 1..MaxThreads threads use the singleton
MaxPairSegs == 2    \* each of two interleaved documents has 1..MaxPairSegs pages
MaxNameChars == 3   \* the short filenames have 0..MaxNameChars characters
MaxTempFiles == 2   \* upload_document creates at most MaxTempFiles temporary files

(***************************************************************************)
(* Generic helpers.                                                        *)
(***************************************************************************)
Range(s) == {s[i] : i \in DOMAIN s}

NoDup(s) == \A i, j \in DOMAIN s : i # j => s[i] # s[j]

Min(a, b) == IF a <= b THEN a ELSE b

\* ceil(a / b) for a >= 0, b >= 1
CeilDiv(a, b) == (a + b - 1) \div b

\* all the lists that hold every element of S exactly once
Orderings(S) ==
    {s \in [1..Cardinality(S) -> S] : \A i, j \in DOMAIN s : i # j => s[i] # s[j]}

(***************************************************************************)
(* Input domains of text_splitting.                                        *)
(***************************************************************************)
\* A page's text: its length in characters and whether it is whitespace only.
PageTexts ==
    {[len |-> 3,   blank |-> TRUE],
     [len |-> 400, blank |-> FALSE],
     [len |-> 900, blank |-> FALSE]}

Docs == UNION {[1..n -> PageTexts] : n \in 1..MaxSegs}

BatchSizes == 1..MaxBatch

\* Attributes of the document-type schema and the values the extractor
\* returns for them.  A field holds a scalar or a list; the record also
\* carries the added_new_keyword flag.
Attrs == {"coverage_type", "insurer"}

Scalar(v) == [isList |-> FALSE, items |-> <<v>>]
List(s) == [isList |-> TRUE, items |-> s]

FieldValues(a) ==
    IF a = "coverage_type"
    THEN {List(<<>>), List(<<"life">>), List(<<"life", "life">>),
          List(<<"life cover", "dental">>)}
    ELSE {Scalar("acme")}

ExtractedRecords ==
    {[fields |-> f, added_new_keyword |-> b] :
        f \in {g \in [Attrs -> UNION {FieldValues(a) : a \in Attrs}] :
                  \A a \in Attrs : g[a] \in FieldValues(a)},
        b \in BOOLEAN}

NoRecord == [fields |-> <<>>, added_new_keyword |-> FALSE]
NoFile == [missing |-> TRUE]

(***************************************************************************)
(* MetadataService (app/utils/metadata_utils.py).                          *)
(***************************************************************************)
\* normalize_dict_to_lists: every value of the dump becomes a list.  The
\* fields are the attributes of the schema; the added_new_keyword flag of the
\* record is kept apart from them.
normalize_dict_to_lists(fields) == [a \in DOMAIN fields |-> fields[a].items]

\* Embedding similarity at or above the acceptance threshold.
Similar(x, y) == x = y \/ {x, y} = {"life", "life cover"}

\* keyword_sementic_check: for every attribute of the candidates, keep the
\* candidate values that are similar to no value the vocabulary already has
\* for that attribute.
keyword_sementic_check(new_data, known) ==
    [a \in DOMAIN new_data |->
        LET have == IF a \in DOMAIN known THEN Range(known[a]) ELSE {}
            novel(v) == \A w \in have : ~Similar(v, w)
        IN  SelectSeq(new_data[a], novel)]

(***************************************************************************)
(* text_splitting.                                                         *)
(***************************************************************************)
ChunkSize == 800
ChunkOverlap == 100

\* RecursiveCharacterTextSplitter(chunk_size, chunk_overlap): number of
\* windows cut from a text of len characters.
NumChunks(len) ==
    IF len <= ChunkSize THEN 1
    ELSE 1 + CeilDiv(len - ChunkSize, ChunkSize - ChunkOverlap)

\* dict.get(key, [])
Get(d, a) == IF a \in DOMAIN d THEN d[a] ELSE <<>>

\* list(set(known_keywords.get(key, []) + vals)) for every key of new_data:
\* the possible outcomes, one per iteration order of the sets.
MergedValuesOverwrite(old, vals) == Range(vals)

MergedValues(old, vals) == Range(old) \cup Range(vals)

\* All the dicts that pick one list of choices[a] for every key a.
RECURSIVE DictsOf(_)
DictsOf(choices) ==
    IF DOMAIN choices = {} THEN {<<>>}
    ELSE LET a == CHOOSE x \in DOMAIN choices : TRUE
             rest == DictsOf([b \in DOMAIN choices \ {a} |-> choices[b]])
         IN  {(a :> v) @@ r : v \in choices[a], r \in rest}

MergeOutcomes(known, new_data) ==
    DictsOf([a \in DOMAIN known \cup DOMAIN new_data |->
                IF a \in DOMAIN new_data
                THEN Orderings(MergedValues(Get(known, a), new_data[a]))
                ELSE {known[a]}])

NextBatchStartByOne(bs, B) == bs + 1

\* range(1, len(doc), batch_size): the value after batch_start
NextBatchStart(bs, B) == bs + B

\* min(batch_start + batch_size, len(doc))
BatchEnd(bs, B, n) == Min(bs + B, n)

\* The passages cut from page i (0-based) with the extracted metadata meta
\* and the uuid drawn for the page; no passage for a page whose stripped
\* text is empty.
ChunkId(uuid, i) == <<uuid, "_p", i>>

PagePassages(page, i, meta, uuid) ==
    IF page.blank THEN <<>>
    ELSE [k \in 1..NumChunks(page.len) |->
            [page_no |-> i, doc_id |-> uuid, chunk_id |-> ChunkId(uuid, i),
             meta |-> meta, piece |-> k]]

\* Passages of pages from..to-1 (0-based), appended to acc; uuids are drawn
\* in page order, one per non-blank page, starting after u.
RECURSIVE BatchPassages(_, _, _, _, _, _)
BatchPassages(d, from, to, meta, u, acc) ==
    IF from >= to THEN [chunks |-> acc, uuids |-> u]
    ELSE LET page == d[from + 1]
             u2 == IF page.blank THEN u ELSE u + 1
         IN  BatchPassages(d, from + 1, to, meta, u2,
                           acc \o PagePassages(page, from, meta, u2))

\* No try/except around the extraction calls (lines 118, 150): the exception
\* leaves text_splitting.
PositionAfterExtractionRaises == "failed"

\* The file is only read (line 146) before the extraction call of a batch,
\* and not opened before that of page 0: it is as it was when the call raises.
FileTruncatedBeforeExtraction(file) == <<>>

FileAfterFailedExtraction(file) == file

\* Lines 170-171: the merged vocabulary is dumped to the file.
PersistedVocabularyNotWritten(merged, file) == file

PersistedVocabulary(merged, file) == merged

IngestIdle ==
    /\ doc = <<>>
    /\ batch_size = 1
    /\ pc = "idle"
    /\ batch_start = 1
    /\ known_keywords = <<>>
    /\ vocabFile = NoFile
    /\ Document_metadata = NoRecord
    /\ all_chunks = <<>>
    /\ extractCalls = 0
    /\ uuidCount = 0
    /\ lastExtraction = "none"
    /\ lastWrite = NoFile
    /\ passed_keywords = <<>>
    /\ accepted = [a \in Attrs |-> {}]

IngestInit ==
    /\ doc \in Docs
    /\ batch_size \in BatchSizes
    /\ pc = "start"
    /\ batch_start = 1
    /\ known_keywords = <<>>
    /\ vocabFile = NoFile
    /\ Document_metadata = NoRecord
    /\ all_chunks = <<>>
    /\ extractCalls = 0
    /\ uuidCount = 0
    /\ lastExtraction = "none"
    /\ lastWrite = NoFile
    /\ passed_keywords = <<>>
    /\ accepted = [a \in Attrs |-> {}]

\* Lines 116-127: extraction of page 0 against an empty vocabulary and the
\* first write of the vocabulary file.
SeedPage ==
    /\ pc = "start"
    /\ \E rec \in ExtractedRecords :
          /\ Document_metadata' = rec
          /\ known_keywords' = normalize_dict_to_lists(rec.fields)
          /\ vocabFile' = normalize_dict_to_lists(rec.fields)
          /\ accepted' = [a \in Attrs |->
                            Range(Get(normalize_dict_to_lists(rec.fields), a))]
    /\ lastWrite' = vocabFile'
    /\ lastExtraction' = "ok"
    /\ passed_keywords' = <<>>
    /\ extractCalls' = extractCalls + 1
    /\ batch_start' = 1
    /\ pc' = "batches"
    /\ UNCHANGED <<doc, batch_size, all_chunks, uuidCount>>
    /\ UNCHANGED nonIngestVars

\* The extraction call of page 0 raises: the exception leaves text_splitting.
SeedFail ==
    /\ pc = "start"
    /\ extractCalls' = extractCalls + 1
    /\ lastExtraction' = "raised"
    /\ passed_keywords' = <<>>
    /\ vocabFile' = FileAfterFailedExtraction(vocabFile)
    /\ pc' = PositionAfterExtractionRaises
    /\ UNCHANGED <<doc, batch_size, batch_start, known_keywords,
                   Document_metadata, all_chunks, uuidCount, lastWrite, accepted>>
    /\ UNCHANGED nonIngestVars

\* Lines 130-196: one iteration of the batch loop.
ProcessBatch ==
    /\ pc = "batches"
    /\ batch_start < Len(doc)
    /\ LET batch_end == BatchEnd(batch_start, batch_size, Len(doc))
           loaded == vocabFile
       IN  \E rec \in ExtractedRecords :
            /\ Document_metadata' = rec
            /\ IF rec.added_new_keyword
               THEN LET new_data == keyword_sementic_check(
                                       normalize_dict_to_lists(rec.fields), loaded)
                    IN  /\ known_keywords' \in MergeOutcomes(loaded, new_data)
                        /\ vocabFile' = PersistedVocabulary(known_keywords', vocabFile)
                        /\ lastWrite' = vocabFile'
                        /\ accepted' = [a \in Attrs |->
                                accepted[a] \cup Range(Get(new_data, a))]
               ELSE /\ known_keywords' = loaded
                    /\ UNCHANGED <<vocabFile, lastWrite, accepted>>
            /\ passed_keywords' = loaded
            /\ LET out == BatchPassages(doc, batch_start, batch_end, rec,
                                        uuidCount, all_chunks)
               IN  /\ all_chunks' = out.chunks
                   /\ uuidCount' = out.uuids
    /\ lastExtraction' = "ok"
    /\ extractCalls' = extractCalls + 1
    /\ batch_start' = NextBatchStart(batch_start, batch_size)
    /\ UNCHANGED <<doc, batch_size, pc>>
    /\ UNCHANGED nonIngestVars

\* The extraction call of a batch raises after the vocabulary was loaded.
BatchFail ==
    /\ pc = "batches"
    /\ batch_start < Len(doc)
    /\ known_keywords' = vocabFile
    /\ passed_keywords' = vocabFile
    /\ extractCalls' = extractCalls + 1
    /\ lastExtraction' = "raised"
    /\ vocabFile' = FileAfterFailedExtraction(vocabFile)
    /\ pc' = PositionAfterExtractionRaises
    /\ UNCHANGED <<doc, batch_size, batch_start, Document_metadata,
                   all_chunks, uuidCount, lastWrite, accepted>>
    /\ UNCHANGED nonIngestVars

\* Line 198: the loop is over, all_chunks is returned.
ReturnChunks ==
    /\ pc = "batches"
    /\ batch_start >= Len(doc)
    /\ pc' = "done"
    /\ UNCHANGED <<doc, batch_size, batch_start, known_keywords, vocabFile,
                   Document_metadata, all_chunks, extractCalls, uuidCount,
                   lastExtraction, lastWrite, passed_keywords, accepted>>
    /\ UNCHANGED nonIngestVars

IngestNext == SeedPage \/ SeedFail \/ ProcessBatch \/ BatchFail \/ ReturnChunks

(***************************************************************************)
(* Reranker.rerank_documents.  Strings are sequences of one-character      *)
(* strings.                                                                *)
(***************************************************************************)
DigitChars == <<"0", "1", "2", "3", "4", "5", "6", "7", "8", "9">>

IsDigit(c) == \E d \in DOMAIN DigitChars : DigitChars[d] = c

DigitValue(c) == (CHOOSE d \in DOMAIN DigitChars : DigitChars[d] = c) - 1

\* str.split(","): the pieces between the commas, cur being the piece read
\* so far.
RECURSIVE SplitFrom(_, _, _)
SplitFrom(s, i, cur) ==
    IF i > Len(s) THEN <<cur>>
    ELSE IF s[i] = "," THEN <<cur>> \o SplitFrom(s, i + 1, <<>>)
    ELSE SplitFrom(s, i + 1, Append(cur, s[i]))

Split(s) == SplitFrom(s, 1, <<>>)

\* int() strips the whitespace around its argument.
RECURSIVE StripLeft(_)
StripLeft(s) ==
    IF s # <<>> /\ Head(s) = " " THEN StripLeft(Tail(s)) ELSE s

RECURSIVE StripRight(_)
StripRight(s) ==
    IF s # <<>> /\ s[Len(s)] = " " THEN StripRight(SubSeq(s, 1, Len(s) - 1)) ELSE s

Strip(s) == StripRight(StripLeft(s))

RECURSIVE DecimalValue(_)
DecimalValue(ds) ==
    IF ds = <<>> THEN 0
    ELSE 10 * DecimalValue(SubSeq(ds, 1, Len(ds) - 1)) + DigitValue(ds[Len(ds)])

\* int(token): an optional sign and one or more digits, else ValueError.
ParseInt(tok) ==
    LET t == Strip(tok)
        signed == t # <<>> /\ Head(t) \in {"-", "+"}
        ds == IF signed THEN Tail(t) ELSE t
    IN  IF ds # <<>> /\ \A i \in DOMAIN ds : IsDigit(ds[i])
        THEN [ok |-> TRUE,
              val |-> IF signed /\ Head(t) = "-" THEN 0 - DecimalValue(ds)
                      ELSE DecimalValue(ds)]
        ELSE [ok |-> FALSE, val |-> 0]

\* lst[k] of Python for a 0-based k: a negative k counts from the end.
InPyRange(lst, k) == 0 - Len(lst) <= k /\ k < Len(lst)

PyIndex(lst, k) == IF k >= 0 THEN lst[k + 1] ELSE lst[Len(lst) + k + 1]

ListIndexNoOffset(i) == i

\* the index i-1 of self.retrieved_docs[i-1]
ListIndex(i) == i - 1

CandidateAt(docs, i) == PyIndex(docs, ListIndex(i))

IndexInPyRange(docs, i) == InPyRange(docs, ListIndex(i))

RECURSIVE Dedup(_)
Dedup(s) ==
    IF s = <<>> THEN <<>>
    ELSE LET init == Dedup(SubSeq(s, 1, Len(s) - 1))
         IN  IF s[Len(s)] \in Range(init) THEN init ELSE Append(init, s[Len(s)])

RankedDocsDedup(docs, ranked_indices) ==
    [k \in DOMAIN Dedup(ranked_indices) |-> CandidateAt(docs, Dedup(ranked_indices)[k])]

\* [self.retrieved_docs[i-1] for i in ranked_indices]
RankedDocs(docs, ranked_indices) ==
    [k \in DOMAIN ranked_indices |-> CandidateAt(docs, ranked_indices[k])]

\* Lines 47-48: what rerank_documents does with the response.
RerankOutcome(docs, resp) ==
    LET toks == Split(resp)
        parsed == [k \in DOMAIN toks |-> ParseInt(toks[k])]
    IN  IF \E k \in DOMAIN parsed : ~parsed[k].ok
        THEN [pc |-> "raised", error |-> "ValueError", result |-> <<>>]
        ELSE LET ranked_indices == [k \in DOMAIN parsed |-> parsed[k].val]
             IN  IF \E k \in DOMAIN ranked_indices :
                        ~IndexInPyRange(docs, ranked_indices[k])
                 THEN [pc |-> "raised", error |-> "IndexError", result |-> <<>>]
                 ELSE [pc |-> "returned", error |-> "none",
                       result |-> RankedDocs(docs, ranked_indices)]

\* The candidates and the responses of the model.
CandNames == <<"A", "B", "C", "D", "E", "F">>

\* the decimal numeral of n, 0 <= n <= 99
Numeral(n) ==
    IF n < 10 THEN <<DigitChars[n + 1]>>
    ELSE <<DigitChars[(n \div 10) + 1], DigitChars[(n % 10) + 1]>>

Tokens ==
    {Numeral(n) : n \in 0..(MaxCands + 2)}
        \cup {<<" ">> \o Numeral(2), <<"-">> \o Numeral(1), <<"x">>, <<>>}

RECURSIVE Join(_)
Join(toks) ==
    IF Len(toks) = 1 THEN toks[1]
    ELSE toks[1] \o <<",">> \o Join(Tail(toks))

Responses == {Join(ts) : ts \in UNION {[1..n -> Tokens] : n \in 1..MaxCands}}

RerankIdle ==
    /\ retrieved_docs = <<>>
    /\ response = <<>>
    /\ rr_pc = "idle"
    /\ rr_result = <<>>
    /\ rr_error = "none"

RerankInit ==
    /\ retrieved_docs \in {SubSeq(CandNames, 1, n) : n \in 1..MaxCands}
    /\ response \in Responses
    /\ rr_pc = "ready"
    /\ rr_result = <<>>
    /\ rr_error = "none"

RerankDocuments ==
    /\ rr_pc = "ready"
    /\ LET out == RerankOutcome(retrieved_docs, response)
       IN  /\ rr_pc' = out.pc
           /\ rr_error' = out.error
           /\ rr_result' = out.result
    /\ UNCHANGED <<retrieved_docs, response>>
    /\ UNCHANGED nonRerankVars

RerankNext == RerankDocuments

(***************************************************************************)
(* sanitize_query (src/app/utils/input_validator.py).                      *)
(***************************************************************************)
MaxQueryLength == 1000

QueryChars == {"NUL", " ", "q"}

Queries == UNION {[1..n -> QueryChars] : n \in 0..MaxQueryChars}

IsNotNul(c) == c # "NUL"

SanitizeQueryKeepNul(q, max_length) ==
    IF q = <<>> THEN <<>>
    ELSE Strip(IF Len(q) > max_length THEN SubSeq(q, 1, max_length) ELSE q)

sanitize_query(q, max_length) ==
    IF q = <<>> THEN <<>>
    ELSE LET noNul == SelectSeq(q, IsNotNul)
             cut == IF Len(noNul) > max_length
                    THEN SubSeq(noNul, 1, max_length) ELSE noNul
         IN  Strip(cut)

(***************************************************************************)
(* RAGService.create_query_embedding, retrive_documents, answer_query and  *)
(* query_document.                                                         *)
(***************************************************************************)
\* The keys and values of the formatted metadata extracted from a query.
MetaKeys == {"coverage_type", "notes", "added_new_keyword", "obligations",
             "exclusions"}

MetaValues(k) ==
    IF k = "coverage_type" THEN {"life", "dental"}
    ELSE IF k = "added_new_keyword" THEN {TRUE}
    ELSE {"text"}

FormattedMetadatas ==
    UNION {DictsOf([k \in K |-> MetaValues(k)]) : K \in SUBSET MetaKeys}

NoMetadata == [unset |-> TRUE]

NoWork == [embed |-> 0, extract |-> 0, lookup |-> 0, answer |-> 0]

ExcludedKeysWithoutNotes == {"obligations", "exclusions", "added_new_keyword"}

\* the list of line 133
ExcludedKeys == {"obligations", "exclusions", "notes", "added_new_keyword"}

\* lines 131-134
FilterQueryMetadata(fm) == [k \in DOMAIN fm \ ExcludedKeys |-> fm[k]]

\* What a session holds of an ingestion when a request arrives: nothing
\* (no upload_document call got to line 87), a service whose documents were
\* split but whose vector store was not created, or a complete ingestion.
None == [none |-> TRUE]

IngestionStates ==
    {[document_info |-> None, chunks |-> None, vector_store |-> None,
      keywords_file |-> NoFile],
     [document_info |-> None, chunks |-> <<"chunk 1", "chunk 2">>,
      vector_store |-> None,
      keywords_file |-> ("coverage_type" :> <<"life">>)],
     [document_info |-> [filename |-> "policy.pdf", type |-> "pdf",
                         chunks_count |-> 2],
      chunks |-> <<"chunk 1", "chunk 2">>,
      vector_store |-> [namespace |-> "ns-1"],
      keywords_file |-> ("coverage_type" :> <<"life">>)]}

QueryIdle ==
    /\ document_uploaded = FALSE
    /\ vector_store_created = FALSE
    /\ query = <<>>
    /\ q_pc = "idle"
    /\ q_status = 0
    /\ q_detail = ""
    /\ formatted_metadata = NoMetadata
    /\ query_metadata = NoMetadata
    /\ work = NoWork
    /\ document_info = None
    /\ rag_chunks = None
    /\ rag_vector_store = None
    /\ q_vocabFile = NoFile

\* A request for a session that get_session found; the session's flags and
\* ingestion state are what the session holds when the request arrives.
QueryInit ==
    /\ document_uploaded \in BOOLEAN
    /\ vector_store_created \in BOOLEAN
    /\ \E st \in IngestionStates :
          /\ document_info = st.document_info
          /\ rag_chunks = st.chunks
          /\ rag_vector_store = st.vector_store
          /\ q_vocabFile = st.keywords_file
    /\ query \in Queries
    /\ q_pc = "received"
    /\ q_status = 0
    /\ q_detail = ""
    /\ formatted_metadata = NoMetadata
    /\ query_metadata = NoMetadata
    /\ work = NoWork

Respond(status, detail) ==
    /\ q_pc' = "responded"
    /\ q_status' = status
    /\ q_detail' = detail

\* routes.py lines 135-139
RejectNoDocument ==
    /\ q_pc = "received"
    /\ ~document_uploaded \/ ~vector_store_created
    /\ Respond(400, "No document uploaded or processed for this session")
    /\ UNCHANGED <<document_uploaded, vector_store_created, query,
                   formatted_metadata, query_metadata, work, q_vocabFile>>
    /\ UNCHANGED <<document_info, rag_chunks, rag_vector_store>>
    /\ UNCHANGED nonQueryVars

\* routes.py lines 141-147
RejectEmptyQuery ==
    /\ q_pc = "received"
    /\ document_uploaded /\ vector_store_created
    /\ sanitize_query(query, MaxQueryLength) = <<>>
    /\ Respond(400, "Query cannot be empty")
    /\ UNCHANGED <<document_uploaded, vector_store_created, query,
                   formatted_metadata, query_metadata, work, q_vocabFile>>
    /\ UNCHANGED <<document_info, rag_chunks, rag_vector_store>>
    /\ UNCHANGED nonQueryVars

\* routes.py line 149: the query passed both checks.
AcceptQuery ==
    /\ q_pc = "received"
    /\ document_uploaded /\ vector_store_created
    /\ sanitize_query(query, MaxQueryLength) # <<>>
    /\ q_pc' = "embedding"
    /\ UNCHANGED <<document_uploaded, vector_store_created, query, q_status,
                   q_detail, formatted_metadata, query_metadata, work,
                   q_vocabFile>>
    /\ UNCHANGED <<document_info, rag_chunks, rag_vector_store>>
    /\ UNCHANGED nonQueryVars

\* RAG_service.py lines 122-123: the vocabulary file is opened for reading;
\* the call has no statement that writes it.
KeywordsFileOverwritten(file, fm) == fm

KeywordsFileAfterQuery(file, fm) == file

\* RAG_service.py lines 113-136 run to the end: the query is embedded, the
\* vocabulary file read, the query's metadata extracted and formatted, and
\* the filtered metadata stored.
CreateQueryEmbeddingEffect(w) ==
    /\ q_vocabFile # NoFile
    /\ \E fm \in FormattedMetadatas :
        /\ formatted_metadata' = fm
        /\ query_metadata' = FilterQueryMetadata(fm)
        /\ q_vocabFile' = KeywordsFileAfterQuery(q_vocabFile, fm)
        /\ work' = [w EXCEPT !.embed = @ + 1, !.extract = @ + 1]

\* routes.py line 151
CreateQueryEmbedding ==
    /\ q_pc = "embedding"
    /\ CreateQueryEmbeddingEffect(work)
    /\ q_pc' = "retrieving"
    /\ UNCHANGED <<document_uploaded, vector_store_created, query, q_status,
                   q_detail>>
    /\ UNCHANGED <<document_info, rag_chunks, rag_vector_store>>
    /\ UNCHANGED nonQueryVars

\* routes.py line 154, RAG_service.py lines 149-154: the metadata is
\* extracted once more and both indices are queried.
RetrieveDocuments ==
    /\ q_pc = "retrieving"
    /\ CreateQueryEmbeddingEffect([work EXCEPT !.lookup = @ + 1])
    /\ q_pc' = "answering"
    /\ UNCHANGED <<document_uploaded, vector_store_created, query, q_status,
                   q_detail>>
    /\ UNCHANGED <<document_info, rag_chunks, rag_vector_store>>
    /\ UNCHANGED nonQueryVars

\* routes.py lines 157-178, RAG_service.py lines 156-181
AnswerQuery ==
    /\ q_pc = "answering"
    /\ work' = [work EXCEPT !.answer = @ + 1]
    /\ Respond(200, "Query processed successfully")
    /\ UNCHANGED <<document_uploaded, vector_store_created, query,
                   formatted_metadata, query_metadata, q_vocabFile>>
    /\ UNCHANGED <<document_info, rag_chunks, rag_vector_store>>
    /\ UNCHANGED nonQueryVars

\* routes.py lines 180-182: a call of the try block raises.  The embedding
\* call (failing at "embed") or the extraction call after it (failing at
\* "extract") was made when create_query_embedding raises; the lookup or
\* the answer call was made when it raises.
QueryFails ==
    /\ q_pc \in {"embedding", "retrieving", "answering"}
    /\ \E at \in {"embed", "extract", "call"} :
          /\ at = "call" => q_pc # "embedding"
          /\ at # "call" => q_pc # "answering"
          /\ work' =
                IF at = "embed" THEN [work EXCEPT !.embed = @ + 1]
                ELSE IF at = "extract"
                     THEN [work EXCEPT !.embed = @ + 1, !.extract = @ + 1]
                ELSE IF q_pc = "retrieving"
                     THEN [work EXCEPT !.embed = @ + 1, !.extract = @ + 1,
                                       !.lookup = @ + 1]
                ELSE [work EXCEPT !.answer = @ + 1]
          /\ at # "embed" => q_vocabFile # NoFile
          /\ IF at = "call" /\ q_pc = "retrieving"
             THEN \E fm \in FormattedMetadatas :
                     /\ formatted_metadata' = fm
                     /\ query_metadata' = FilterQueryMetadata(fm)
                     /\ q_vocabFile' = KeywordsFileAfterQuery(q_vocabFile, fm)
             ELSE UNCHANGED <<formatted_metadata, query_metadata, q_vocabFile>>
    /\ Respond(500, "Error processing query")
    /\ UNCHANGED <<document_uploaded, vector_store_created, query>>
    /\ UNCHANGED <<document_info, rag_chunks, rag_vector_store>>
    /\ UNCHANGED nonQueryVars

QueryNext ==
    \/ RejectNoDocument
    \/ RejectEmptyQuery
    \/ AcceptQuery
    \/ CreateQueryEmbedding
    \/ RetrieveDocuments
    \/ AnswerQuery
    \/ QueryFails

(***************************************************************************)
(* EmbeddingModelSingleton: every thread runs EmbeddingModelSingleton()    *)
(* and then get_model() on the instance it got; a step is one read, write, *)
(* lock operation or call.                                                 *)
(***************************************************************************)
Threads == 1..MaxThreads

SingletonIdle ==
    /\ callers = {}
    /\ s_instance = 0
    /\ s_lock = 0
    /\ s_model = [i \in Threads |-> 0]
    /\ t_pc = [t \in Threads |-> "idle"]
    /\ t_self = [t \in Threads |-> 0]
    /\ t_model = [t \in Threads |-> 0]
    /\ instancesCreated = 0
    /\ loadCalls = 0

\* The threads start either on the class as defined (no instance yet) or
\* after line 44 has created the module's instance.
SingletonInit ==
    /\ callers \in {1..n : n \in 1..MaxThreads}
    /\ s_instance \in {0, 1}
    /\ s_lock = 0
    /\ s_model = [i \in Threads |-> 0]
    /\ t_pc = [t \in Threads |-> IF t \in callers THEN "new_check" ELSE "idle"]
    /\ t_self = [t \in Threads |-> 0]
    /\ t_model = [t \in Threads |-> 0]
    /\ instancesCreated = s_instance
    /\ loadCalls = 0

Goto(t, where) == t_pc' = [t_pc EXCEPT ![t] = where]

\* line 28: if cls._instance is None (under the lock)
InstanceMissing(inst) == inst = 0

ModelMissingUnchecked(m) == TRUE

\* line 36: if self._embedding_model is None (under the lock)
ModelMissing(m) == m = 0

\* line 26: if cls._instance is None
NewCheck(t) ==
    /\ t_pc[t] = "new_check"
    /\ Goto(t, IF s_instance = 0 THEN "new_lock" ELSE "new_return")
    /\ UNCHANGED <<callers, s_instance, s_lock, s_model, t_self, t_model,
                   instancesCreated, loadCalls>>
    /\ UNCHANGED nonSingletonVars

\* line 27: with cls._lock
NewLock(t) ==
    /\ t_pc[t] = "new_lock"
    /\ s_lock = 0
    /\ s_lock' = t
    /\ Goto(t, "new_recheck")
    /\ UNCHANGED <<callers, s_instance, s_model, t_self, t_model,
                   instancesCreated, loadCalls>>
    /\ UNCHANGED nonSingletonVars

\* line 28
NewRecheck(t) ==
    /\ t_pc[t] = "new_recheck"
    /\ Goto(t, IF InstanceMissing(s_instance) THEN "new_create" ELSE "new_unlock")
    /\ UNCHANGED <<callers, s_instance, s_lock, s_model, t_self, t_model,
                   instancesCreated, loadCalls>>
    /\ UNCHANGED nonSingletonVars

\* line 29: cls._instance = super().__new__(cls)
NewCreate(t) ==
    /\ t_pc[t] = "new_create"
    /\ instancesCreated' = instancesCreated + 1
    /\ s_instance' = instancesCreated + 1
    /\ Goto(t, "new_unlock")
    /\ UNCHANGED <<callers, s_lock, s_model, t_self, t_model, loadCalls>>
    /\ UNCHANGED nonSingletonVars

\* end of the with block of line 27
NewUnlock(t) ==
    /\ t_pc[t] = "new_unlock"
    /\ s_lock' = 0
    /\ Goto(t, "new_return")
    /\ UNCHANGED <<callers, s_instance, s_model, t_self, t_model,
                   instancesCreated, loadCalls>>
    /\ UNCHANGED nonSingletonVars

\* line 30: return cls._instance
NewReturn(t) ==
    /\ t_pc[t] = "new_return"
    /\ t_self' = [t_self EXCEPT ![t] = s_instance]
    /\ Goto(t, "get_check")
    /\ UNCHANGED <<callers, s_instance, s_lock, s_model, t_model,
                   instancesCreated, loadCalls>>
    /\ UNCHANGED nonSingletonVars

\* line 34: if self._embedding_model is None
GetCheck(t) ==
    /\ t_pc[t] = "get_check"
    /\ Goto(t, IF s_model[t_self[t]] = 0 THEN "get_lock" ELSE "get_return")
    /\ UNCHANGED <<callers, s_instance, s_lock, s_model, t_self, t_model,
                   instancesCreated, loadCalls>>
    /\ UNCHANGED nonSingletonVars

\* line 35: with self._lock
GetLock(t) ==
    /\ t_pc[t] = "get_lock"
    /\ s_lock = 0
    /\ s_lock' = t
    /\ Goto(t, "get_recheck")
    /\ UNCHANGED <<callers, s_instance, s_model, t_self, t_model,
                   instancesCreated, loadCalls>>
    /\ UNCHANGED nonSingletonVars

\* line 36
GetRecheck(t) ==
    /\ t_pc[t] = "get_recheck"
    /\ Goto(t, IF ModelMissing(s_model[t_self[t]]) THEN "get_load" ELSE "get_unlock")
    /\ UNCHANGED <<callers, s_instance, s_lock, s_model, t_self, t_model,
                   instancesCreated, loadCalls>>
    /\ UNCHANGED nonSingletonVars

\* lines 38-39: embedding_loader.load_llm() is called
GetLoad(t) ==
    /\ t_pc[t] = "get_load"
    /\ loadCalls' = loadCalls + 1
    /\ Goto(t, "get_store")
    /\ UNCHANGED <<callers, s_instance, s_lock, s_model, t_self, t_model,
                   instancesCreated>>
    /\ UNCHANGED nonSingletonVars

\* line 39: self._embedding_model = the model load_llm() returned
GetStore(t) ==
    /\ t_pc[t] = "get_store"
    /\ s_model' = [s_model EXCEPT ![t_self[t]] = loadCalls]
    /\ Goto(t, "get_unlock")
    /\ UNCHANGED <<callers, s_instance, s_lock, t_self, t_model,
                   instancesCreated, loadCalls>>
    /\ UNCHANGED nonSingletonVars

\* end of the with block of line 35
GetUnlock(t) ==
    /\ t_pc[t] = "get_unlock"
    /\ s_lock' = 0
    /\ Goto(t, "get_return")
    /\ UNCHANGED <<callers, s_instance, s_model, t_self, t_model,
                   instancesCreated, loadCalls>>
    /\ UNCHANGED nonSingletonVars

\* line 40: return self._embedding_model
GetReturn(t) ==
    /\ t_pc[t] = "get_return"
    /\ t_model' = [t_model EXCEPT ![t] = s_model[t_self[t]]]
    /\ Goto(t, "done")
    /\ UNCHANGED <<callers, s_instance, s_lock, s_model, t_self,
                   instancesCreated, loadCalls>>
    /\ UNCHANGED nonSingletonVars

SingletonNext ==
    \E t \in Threads :
        \/ NewCheck(t) \/ NewLock(t) \/ NewRecheck(t) \/ NewCreate(t)
        \/ NewUnlock(t) \/ NewReturn(t)
        \/ GetCheck(t) \/ GetLock(t) \/ GetRecheck(t) \/ GetLoad(t)
        \/ GetStore(t) \/ GetUnlock(t) \/ GetReturn(t)

(***************************************************************************)
(* Two text_splitting runs, each on its own splitting_text object and its  *)
(* own document, interleaved: a step is the seed (lines 110-127) or one    *)
(* iteration of the batch loop (lines 130-196) of one run.  The runs share *)
(* the directory app/data/.                                                *)
(***************************************************************************)
Runs == {1, 2}

\* text_splitting(self, doc, batch_size: int = 5), called without
\* batch_size by load_and_split_document (RAG_service.py line 109)
DefaultBatchSize == 5

\* doc[0].metadata['source'] of the documents
Sources ==
    {<<"a", ".", "v", "1", ".", "p", "d", "f">>,
     <<"a", "v", "1", ".", "p", "d", "f">>,
     <<"a", "\\", "v", "1", ".", "p", "d", "f">>,
     <<"b", ".", "p", "d", "f">>}

\* str.replace(old, "") for a one-character old
RemoveChar(str, c) == SelectSeq(str, LAMBDA x : x # c)

\* Line 112: source.replace(".","").replace("\\","") + ".json"
KeywordsFileName(source) ==
    RemoveChar(RemoveChar(source, "."), "\\") \o <<".", "j", "s", "o", "n">>

\* Documents of the two runs: 1..MaxPairSegs pages of non-blank text.
PairDocs ==
    {[i \in 1..n |-> [len |-> 400, blank |-> FALSE]] : n \in 1..MaxPairSegs}

\* A vocabulary (attribute -> list) with the given sets of values.
AsLists(sets) ==
    [a \in DOMAIN sets |-> CHOOSE l \in Orderings(sets[a]) : TRUE]

\* open(path, "w") and json.dump: the file is created or overwritten
WriteFile(fs, name, content) ==
    [n \in DOMAIN fs \cup {name} |-> IF n = name THEN content ELSE fs[n]]

NoFiles == [n \in {} |-> NoFile]

PairIdle ==
    /\ d_source = [r \in Runs |-> <<>>]
    /\ d_doc = [r \in Runs |-> <<>>]
    /\ d_pc = [r \in Runs |-> "idle"]
    /\ d_batch_start = [r \in Runs |-> 0]
    /\ d_known = [r \in Runs |-> <<>>]
    /\ d_meta = [r \in Runs |-> NoRecord]
    /\ d_chunks = [r \in Runs |-> <<>>]
    /\ d_uuid = [r \in Runs |-> 0]
    /\ d_alone = [r \in Runs |-> [a \in Attrs |-> {}]]
    /\ files = NoFiles

\* Two different documents: their source identifiers differ.
PairInit ==
    /\ d_source \in {f \in [Runs -> Sources] : f[1] # f[2]}
    /\ d_doc \in [Runs -> PairDocs]
    /\ d_pc = [r \in Runs |-> "start"]
    /\ d_batch_start = [r \in Runs |-> 0]
    /\ d_known = [r \in Runs |-> <<>>]
    /\ d_meta = [r \in Runs |-> NoRecord]
    /\ d_chunks = [r \in Runs |-> <<>>]
    /\ d_uuid = [r \in Runs |-> 0]
    /\ d_alone = [r \in Runs |-> [a \in Attrs |-> {}]]
    /\ files = NoFiles

\* Lines 110-127 of run r.
RunSeed(r) ==
    /\ d_pc[r] = "start"
    /\ \E rec \in ExtractedRecords :
          LET known == normalize_dict_to_lists(rec.fields)
          IN  /\ d_meta' = [d_meta EXCEPT ![r] = rec]
              /\ d_known' = [d_known EXCEPT ![r] = known]
              /\ files' = WriteFile(files, KeywordsFileName(d_source[r]), known)
              /\ d_alone' = [d_alone EXCEPT
                                ![r] = [a \in Attrs |-> Range(Get(known, a))]]
    /\ d_batch_start' = [d_batch_start EXCEPT ![r] = 1]
    /\ d_pc' = [d_pc EXCEPT ![r] = "batches"]
    /\ UNCHANGED <<d_source, d_doc, d_chunks, d_uuid>>
    /\ UNCHANGED nonPairVars

\* Lines 130-196 of run r: one iteration of the batch loop.
RunBatch(r) ==
    /\ d_pc[r] = "batches"
    /\ d_batch_start[r] < Len(d_doc[r])
    /\ LET name == KeywordsFileName(d_source[r])
           batch_end == BatchEnd(d_batch_start[r], DefaultBatchSize, Len(d_doc[r]))
           loaded == files[name]
       IN  \E rec \in ExtractedRecords :
            /\ d_meta' = [d_meta EXCEPT ![r] = rec]
            /\ IF rec.added_new_keyword
               THEN LET new_data == keyword_sementic_check(
                                       normalize_dict_to_lists(rec.fields), loaded)
                        alone_data == keyword_sementic_check(
                                       normalize_dict_to_lists(rec.fields),
                                       AsLists(d_alone[r]))
                    IN  /\ \E merged \in MergeOutcomes(loaded, new_data) :
                              /\ d_known' = [d_known EXCEPT ![r] = merged]
                              /\ files' = WriteFile(files, name, merged)
                        /\ d_alone' = [d_alone EXCEPT ![r] =
                              [a \in Attrs |-> @[a] \cup Range(Get(alone_data, a))]]
               ELSE /\ d_known' = [d_known EXCEPT ![r] = loaded]
                    /\ UNCHANGED <<files, d_alone>>
            /\ LET out == BatchPassages(d_doc[r], d_batch_start[r], batch_end, rec,
                                        d_uuid[r], d_chunks[r])
               IN  /\ d_chunks' = [d_chunks EXCEPT ![r] = out.chunks]
                   /\ d_uuid' = [d_uuid EXCEPT ![r] = out.uuids]
    /\ d_batch_start' = [d_batch_start EXCEPT
                            ![r] = NextBatchStart(@, DefaultBatchSize)]
    /\ UNCHANGED <<d_source, d_doc, d_pc>>
    /\ UNCHANGED nonPairVars

\* An extraction call of run r raises (line 118 or line 150).
RunFail(r) ==
    /\ \/ d_pc[r] = "start"
       \/ d_pc[r] = "batches" /\ d_batch_start[r] < Len(d_doc[r])
    /\ d_pc' = [d_pc EXCEPT ![r] = PositionAfterExtractionRaises]
    /\ d_known' = [d_known EXCEPT
                      ![r] = IF d_pc[r] = "start" THEN @
                             ELSE files[KeywordsFileName(d_source[r])]]
    /\ UNCHANGED <<d_source, d_doc, d_batch_start, d_meta, d_chunks, d_uuid,
                   d_alone, files>>
    /\ UNCHANGED nonPairVars

\* Line 198 of run r.
RunReturn(r) ==
    /\ d_pc[r] = "batches"
    /\ d_batch_start[r] >= Len(d_doc[r])
    /\ d_pc' = [d_pc EXCEPT ![r] = "done"]
    /\ UNCHANGED <<d_source, d_doc, d_batch_start, d_known, d_meta, d_chunks,
                   d_uuid, d_alone, files>>
    /\ UNCHANGED nonPairVars

PairNext ==
    \E r \in Runs : RunSeed(r) \/ RunBatch(r) \/ RunFail(r) \/ RunReturn(r)

(***************************************************************************)
(* sanitize_filename (src/app/utils/input_validator.py lines 10-39), with  *)
(* pathlib's pure POSIX paths.  A string is a sequence of characters.      *)
(***************************************************************************)
\* the limit of lines 31 and 33
NameLimit == 255

\* Characters of the filenames: \w matches the word characters, \s the
\* whitespace; "/", "\\" and "*" are matched by neither.
WordChars == {"a", "b", "_", "u", "n", "m", "e", "d", "f", "i", "l", "p", "t", "x",
              "P", "D", "F"}

SpaceChars == {" ", "\t"}

FileChars == {"a", " ", "\t", ".", "-", "/", "\\", "*"}

\* n times the character c
Rep(c, n) == [i \in 1..n |-> c]

SetMax(S) == CHOOSE x \in S : \A y \in S : y <= x

SetMin(S) == CHOOSE x \in S : \A y \in S : x <= y

\* Path(p).name: the last component of p between "/"s, not counting the
\* empty components and the "." components; "" when there is none.
ComponentEnd(p, i) ==
    SetMin({j \in i..Len(p) : j = Len(p) \/ p[j + 1] = "/"})

PathName(p) ==
    LET starts == {i \in 1..Len(p) :
                      /\ p[i] # "/"
                      /\ i = 1 \/ p[i - 1] = "/"
                      /\ SubSeq(p, i, ComponentEnd(p, i)) # <<".">>}
    IN  IF starts = {} THEN <<>>
        ELSE SubSeq(p, SetMax(starts), ComponentEnd(p, SetMax(starts)))

\* The index of the "." that starts the suffix of a name, 0 when the name
\* has no suffix: the last ".", unless it is the first or the last
\* character.
SuffixStart(name) ==
    LET dots == {i \in 1..Len(name) : name[i] = "."}
    IN  IF dots = {} THEN 0
        ELSE IF SetMax(dots) > 1 /\ SetMax(dots) < Len(name) THEN SetMax(dots)
        ELSE 0

\* Path(name).suffix and Path(name).stem of a name without "/"
PathSuffix(name) ==
    IF SuffixStart(name) = 0 THEN <<>>
    ELSE SubSeq(name, SuffixStart(name), Len(name))

PathStem(name) ==
    IF SuffixStart(name) = 0 THEN name
    ELSE SubSeq(name, 1, SuffixStart(name) - 1)

\* re.sub(r'[^\w\s\-\.]', '', filename)
KeepAllowedChars(str) ==
    SelectSeq(str, LAMBDA c : c \in WordChars \cup SpaceChars \cup {"-", "."})

\* str.strip(chars)
StripChars(str, chars) ==
    LET kept == {i \in 1..Len(str) : str[i] \notin chars}
    IN  IF kept = {} THEN <<>> ELSE SubSeq(str, SetMin(kept), SetMax(kept))

\* str[:n]: the first n characters, or all but the last -n when n < 0
SliceTo(str, n) ==
    IF n >= 0 THEN SubSeq(str, 1, Min(n, Len(str)))
    ELSE SubSeq(str, 1, Len(str) + n)

\* lines 30-33
LimitLength(sanitized) ==
    IF Len(sanitized) > NameLimit
    THEN SliceTo(PathStem(sanitized), NameLimit - Len(PathSuffix(sanitized)))
            \o PathSuffix(sanitized)
    ELSE sanitized

unnamed_file == <<"u", "n", "n", "a", "m", "e", "d", "_", "f", "i", "l", "e">>

sanitize_filename(filename) ==
    LET limited == LimitLength(
                      StripChars(KeepAllowedChars(PathName(filename)), {".", " "}))
    IN  IF limited = <<>> THEN unnamed_file ELSE limited

\* Filenames a client can send: every short string of FileChars, and long
\* names around the limit, with and without a suffix.
ShortNames == UNION {[1..n -> FileChars] : n \in 0..MaxNameChars}

LongNames ==
    {Rep("a", n) \o mid \o Rep("b", m) :
        n \in {NameLimit - 1, NameLimit},
        mid \in {<<>>, <<" ">>, <<".">>},
        m \in {0, 1, NameLimit + 45}}

Filenames == ShortNames \cup LongNames

FilenameIdle ==
    /\ fn_filename = <<>>
    /\ fn_pc = "idle"
    /\ fn_result = <<>>

FilenameInit ==
    /\ fn_filename \in Filenames
    /\ fn_pc = "called"
    /\ fn_result = <<>>

SanitizeFilename ==
    /\ fn_pc = "called"
    /\ fn_result' = sanitize_filename(fn_filename)
    /\ fn_pc' = "returned"
    /\ UNCHANGED fn_filename
    /\ UNCHANGED nonFilenameVars

FilenameNext == SanitizeFilename

(***************************************************************************)
(* The session routes of src/app/api/v1/routes.py: create_session,         *)
(* delete_session, upload_document, query_document and                    *)
(* get_session_status.  A step is one request handled from its arrival to  *)
(* its response.                                                           *)
(***************************************************************************)
HexChars == {"0", "1", "2", "3", "4", "5", "6", "7", "8", "9",
             "a", "b", "c", "d", "e", "f", "A", "B", "C", "D", "E", "F"}

\* A string of the shape 8-4-4-4-12 filled with one character, with the
\* given first characters of the third and fourth group.
Uuid(fill, ver, var) ==
    Rep(fill, 8) \o <<"-">> \o Rep(fill, 4) \o <<"-">> \o <<ver>> \o Rep(fill, 3)
        \o <<"-">> \o <<var>> \o Rep(fill, 3) \o <<"-">> \o Rep(fill, 12)

\* input_validator.py lines 90-108: the pattern, matched with IGNORECASE;
\* "$" also matches before a newline that ends the string.
validate_session_id(id) ==
    LET core == IF Len(id) = 37 /\ id[37] = "\n" THEN SubSeq(id, 1, 36) ELSE id
    IN  /\ Len(core) = 36
        /\ \A i \in 1..36 :
              IF i \in {9, 14, 19, 24} THEN core[i] = "-"
              ELSE IF i = 15 THEN core[i] = "4"
              ELSE IF i = 20 THEN core[i] \in {"8", "9", "a", "b", "A", "B"}
              ELSE core[i] \in HexChars

\* The ids create_session returns, str(uuid.uuid4()).
NewSessionIds == {Uuid("1", "4", "8"), Uuid("a", "4", "b")}

\* The session_id path parameter of a request.
RequestIds ==
    NewSessionIds \cup
    {Uuid("A", "4", "B"), Uuid("1", "1", "8"), Uuid("1", "4", "c"),
     Uuid("g", "4", "8"), <<"1">>, Uuid("1", "4", "8") \o <<"\n">>}

\* A Session as SessionManager.create_session makes it.
NewSession ==
    [document_uploaded |-> FALSE, vector_store_created |-> FALSE,
     document_info |-> None, rag_service |-> None]

\* RAG_service.py lines 47-63: RAGService(); document is the file the
\* service was given to load.
NewRAGService ==
    [chunks |-> None, vector_store |-> None, sparse_retriever |-> None,
     document |-> None]

\* settings.allowed_file_types and settings.max_file_size
AllowedFileTypes == {<<".", "p", "d", "f">>, <<".", "d", "o", "c", "x">>}

MaxFileSize == 10

\* The uploaded files: filename and size.
UploadFilenames ==
    {<<"a", ".", "p", "d", "f">>, <<"a", ".", "P", "D", "F">>,
     <<".", ".", "/", "a", ".", "p", "d", "f">>, <<"a", ".", "t", "x", "t">>,
     <<".", "p", "d", "f">>, <<"a">>}

UploadFiles == [filename : UploadFilenames, size : {1, MaxFileSize + 1}]

DocTypes == {"pdf", "word", "txt"}

\* What the calls of the try block meet: whether loading and splitting
\* raises, the chunks it returns, whether the vector store creation raises.
UploadEnvs ==
    [load_raises : BOOLEAN, chunks : {<<"chunk 1">>, <<"chunk 1", "chunk 2">>},
     store_raises : BOOLEAN]

\* str.lower()
LowerChar(c) ==
    IF c = "P" THEN "p" ELSE IF c = "D" THEN "d" ELSE IF c = "F" THEN "f" ELSE c

Lower(str) == [i \in 1..Len(str) |-> LowerChar(str[i])]

\* Lines 60-63: Path(sanitize_filename(file.filename)).suffix.lower() of
\* every uploaded filename.
FileExtensionOf ==
    [name \in UploadFilenames |-> Lower(PathSuffix(sanitize_filename(name)))]

\* validate_session_id of every id of a request.
ValidRequestId == [id \in RequestIds |-> validate_session_id(id)]

\* The local names of upload_document when line 81 is evaluated, and the
\* names lines 81-84 bind.
LocalsAtTempFile ==
    {"session_id", "file", "doc_type", "session", "settings", "safe_filename",
     "file_extension", "upload_dir"}

LocalsOfTempFile == {"tmp_file", "content", "tmp_file_path"}

\* The names bound at module level in routes.py (lines 1-16 and the defs).
ModuleNames ==
    {"APIRouter", "HTTPException", "Depends", "UploadFile", "File", "Form",
     "JSONResponse", "Optional", "os", "tempfile", "Path", "SessionManager",
     "Session", "session_manager", "RAGService", "QueryRequest",
     "SessionResponse", "QueryResponse", "UploadResponse", "SourceDocument",
     "get_settings", "sanitize_filename", "validate_session_id",
     "sanitize_query", "setup_logger", "router", "logger", "get_session",
     "create_session", "delete_session", "upload_document", "query_document",
     "get_session_status"}

\* Line 81: the name given as suffix to NamedTemporaryFile.
TempFileSuffixNameAsAssigned == "file_extension"

TempFileSuffixName == "file_exension"

\* Line 120: the name looked up in locals() before the unlink of line 122.
CleanupTestName == "temp_file_path"

\* Lines 135: the session has a processed document.
SessionReadyUnchecked(session) == TRUE

SessionReady(session) ==
    session.document_uploaded /\ session.vector_store_created

NoRequest == [op |-> "none", session_id |-> <<>>, status |-> 0, detail |-> "",
              rag_invoked |-> FALSE]

Response(op, id, status, detail, rag) ==
    [op |-> op, session_id |-> id, status |-> status, detail |-> detail,
     rag_invoked |-> rag]

\* Lines 18-27: the HTTPException get_session raises, or 0.
GetSessionError(ss, id) ==
    IF ~ValidRequestId[id] THEN 400
    ELSE IF id \notin DOMAIN ss THEN 404
    ELSE 0

GetSessionDetail(status) ==
    IF status = 400 THEN "Invalid session ID format"
    ELSE "Session not found or expired"

\* Lines 118-126: the except block, entered with the sessions and files as
\* the try block left them and the local names bound so far.
ExceptBlock(ss, files_now, tmp, count, locals, id) ==
    [sessions |-> ss,
     tmp_files |-> IF CleanupTestName \in locals THEN files_now \ {tmp}
                   ELSE files_now,
     tmp_count |-> count,
     response |-> Response("upload", id, 500, "Error processing document", FALSE)]

\* Lines 75-117: the try block of upload_document for the session of id.
TryBlock(ss, id, file, doc_type, env) ==
    LET tmp == <<"tmp", tmp_count + 1>>
        created == tmp_files \cup {tmp}
        locals == LocalsAtTempFile \cup LocalsOfTempFile
        service == NewRAGService
        ss87 == [ss EXCEPT ![id].rag_service = service]
        loaded == [service EXCEPT !.chunks = [list |-> env.chunks],
                                  !.document = [path |-> tmp,
                                                filename |-> file.filename]]
        ss93 == [ss EXCEPT ![id].rag_service = loaded]
        stored == [loaded EXCEPT !.vector_store = [namespace |-> "ns"],
                                 !.sparse_retriever = [k |-> 3]]
        ss107 == [ss EXCEPT ![id] =
                    [document_uploaded |-> TRUE,
                     vector_store_created |-> TRUE,
                     document_info |-> [filename |-> file.filename,
                                        type |-> doc_type,
                                        size |-> file.size,
                                        chunks_count |-> Len(stored.chunks.list)],
                     rag_service |-> stored]]
    IN  IF TempFileSuffixName \notin LocalsAtTempFile \cup ModuleNames
        THEN \* NameError at line 81, before the file is created
             ExceptBlock(ss, tmp_files, tmp, tmp_count, LocalsAtTempFile, id)
        ELSE IF doc_type \notin {"pdf", "word"} \/ env.load_raises
        THEN ExceptBlock(ss87, created, tmp, tmp_count + 1, locals, id)
        ELSE IF env.store_raises
        THEN ExceptBlock(ss93, created, tmp, tmp_count + 1, locals, id)
        ELSE [sessions |-> ss107,
              tmp_files |-> created \ {tmp},
              tmp_count |-> tmp_count + 1,
              response |-> Response("upload", id, 200,
                             "Document uploaded and processed successfully",
                             FALSE)]

\* Lines 49-126.
upload_document(ss, id, file, doc_type, env) ==
    LET rejected(status, detail) ==
            [sessions |-> ss, tmp_files |-> tmp_files, tmp_count |-> tmp_count,
             response |-> Response("upload", id, status, detail, FALSE)]
        err == GetSessionError(ss, id)
        file_extension == FileExtensionOf[file.filename]
    IN  IF err # 0 THEN rejected(err, GetSessionDetail(err))
        ELSE IF file_extension \notin AllowedFileTypes
        THEN rejected(400, <<"File type not allowed", file_extension>>)
        ELSE IF file.size > MaxFileSize
        THEN rejected(400, "File size too large")
        ELSE TryBlock(ss, id, file, doc_type, env)

\* Lines 128-182, as far as the session is concerned: the response and
\* whether a method of session.rag_service was called.
query_document(ss, id, q, fails) ==
    LET err == GetSessionError(ss, id)
    IN  IF err # 0 THEN Response("query", id, err, GetSessionDetail(err), FALSE)
        ELSE IF ~SessionReady(ss[id])
        THEN Response("query", id, 400,
                      "No document uploaded or processed for this session", FALSE)
        ELSE IF sanitize_query(q, MaxQueryLength) = <<>>
        THEN Response("query", id, 400, "Query cannot be empty", FALSE)
        ELSE IF fails
        THEN Response("query", id, 500, "Error processing query", TRUE)
        ELSE Response("query", id, 200, "Query processed successfully", TRUE)

SessionIdle ==
    /\ sessions = <<>>
    /\ tmp_files = {}
    /\ tmp_count = 0
    /\ last = NoRequest

\* The service has started: no session yet.
SessionInit ==
    /\ sessions = <<>>
    /\ tmp_files = {}
    /\ tmp_count = 0
    /\ last = NoRequest

\* Lines 29-37
CreateSession ==
    /\ \E id \in NewSessionIds \ DOMAIN sessions :
          /\ sessions' = [i \in DOMAIN sessions \cup {id} |->
                             IF i = id THEN NewSession ELSE sessions[i]]
          /\ last' = Response("create", id, 200, "Session created successfully",
                              FALSE)
    /\ UNCHANGED <<tmp_files, tmp_count>>
    /\ UNCHANGED nonSessionVars

\* Lines 39-47
DeleteSession ==
    /\ \E id \in RequestIds :
          IF ~ValidRequestId[id]
          THEN /\ last' = Response("delete", id, 400, "Invalid session ID format",
                                   FALSE)
               /\ UNCHANGED sessions
          ELSE /\ sessions' = [i \in DOMAIN sessions \ {id} |-> sessions[i]]
               /\ last' = Response("delete", id, 200,
                                   "Session deleted successfully", FALSE)
    /\ UNCHANGED <<tmp_files, tmp_count>>
    /\ UNCHANGED nonSessionVars

\* Lines 49-126
UploadDocument ==
    /\ tmp_count < MaxTempFiles
    /\ \E id \in RequestIds, file \in UploadFiles, doc_type \in DocTypes,
          env \in UploadEnvs :
          LET out == upload_document(sessions, id, file, doc_type, env)
          IN  /\ sessions' = out.sessions
              /\ tmp_files' = out.tmp_files
              /\ tmp_count' = out.tmp_count
              /\ last' = out.response
    /\ UNCHANGED nonSessionVars

\* Lines 128-182
QueryDocument ==
    /\ \E id \in RequestIds, q \in Queries, fails \in BOOLEAN :
          last' = query_document(sessions, id, q, fails)
    /\ UNCHANGED <<sessions, tmp_files, tmp_count>>
    /\ UNCHANGED nonSessionVars

\* Lines 184-197
GetSessionStatus ==
    /\ \E id \in RequestIds :
          LET err == GetSessionError(sessions, id)
          IN  last' = IF err # 0
                      THEN Response("status", id, err, GetSessionDetail(err), FALSE)
                      ELSE Response("status", id, 200,
                               [document_uploaded |->
                                    sessions[id].document_uploaded,
                                vector_store_created |->
                                    sessions[id].vector_store_created,
                                document_info |-> sessions[id].document_info],
                               FALSE)
    /\ UNCHANGED <<sessions, tmp_files, tmp_count>>
    /\ UNCHANGED nonSessionVars

SessionNext ==
    \/ CreateSession
    \/ DeleteSession
    \/ UploadDocument
    \/ QueryDocument
    \/ GetSessionStatus

(***************************************************************************)
(* Specifications.                                                         *)
(***************************************************************************)
InitIngest == IngestInit /\ RerankIdle /\ QueryIdle /\ SingletonIdle /\ PairIdle
        /\ FilenameIdle
        /\ SessionIdle

SpecIngest == InitIngest /\ [][IngestNext]_vars

InitRerank == RerankInit /\ IngestIdle /\ QueryIdle /\ SingletonIdle /\ PairIdle
        /\ FilenameIdle
        /\ SessionIdle

SpecRerank == InitRerank /\ [][RerankNext]_vars

InitQuery == QueryInit /\ IngestIdle /\ RerankIdle /\ SingletonIdle /\ PairIdle
        /\ FilenameIdle
        /\ SessionIdle

SpecQuery == InitQuery /\ [][QueryNext]_vars

InitSingleton == SingletonInit /\ IngestIdle /\ RerankIdle /\ QueryIdle /\ PairIdle
        /\ FilenameIdle
        /\ SessionIdle

SpecSingleton == InitSingleton /\ [][SingletonNext]_vars

InitPair ==
    PairInit /\ IngestIdle /\ RerankIdle /\ QueryIdle /\ SingletonIdle
        /\ FilenameIdle
        /\ SessionIdle

SpecPair == InitPair /\ [][PairNext]_vars

InitFilename ==
    FilenameInit /\ IngestIdle /\ RerankIdle /\ QueryIdle /\ SingletonIdle
        /\ PairIdle
        /\ SessionIdle

SpecFilename == InitFilename /\ [][FilenameNext]_vars

InitSession ==
    SessionInit /\ IngestIdle /\ RerankIdle /\ QueryIdle /\ SingletonIdle
        /\ PairIdle /\ FilenameIdle

SpecSession == InitSession /\ [][SessionNext]_vars

(***************************************************************************)
(* Claims about text_splitting, checked under SpecIngest.                  *)
(***************************************************************************)
\* The values the last extraction call returned for attribute a.
ExtractedValues(rec, a) == Range(normalize_dict_to_lists(rec.fields)[a])

\* C1: in every step of the batch loop the vocabulary only grows: every
\* attribute of the vocabulary file and of known_keywords keeps all the
\* values it had before the step, and when the values extracted for an
\* attribute in a flagged extraction were all present already, the number of
\* values of that attribute does not change.
VocabularyOnlyGrows ==
    [][pc = "batches" =>
        \A a \in DOMAIN vocabFile :
            /\ a \in DOMAIN vocabFile'
            /\ a \in DOMAIN known_keywords'
            /\ Range(vocabFile[a]) \subseteq Range(vocabFile'[a])
            /\ Range(known_keywords[a]) \subseteq Range(known_keywords'[a])
            /\ (/\ extractCalls' # extractCalls
                /\ pc' = "batches"
                /\ Document_metadata'.added_new_keyword
                /\ ExtractedValues(Document_metadata', a) \subseteq Range(vocabFile[a]))
               => /\ Cardinality(Range(vocabFile'[a])) = Cardinality(Range(vocabFile[a]))
                  /\ Cardinality(Range(known_keywords'[a]))
                        = Cardinality(Range(known_keywords[a]))]_vars

\* C1 witness: after the seed {life}, a flagged batch added "dental" and a
\* later flagged batch brought only "life", which was present already.
VocabularyGrewThenUnchanged ==
    /\ pc = "batches"
    /\ extractCalls = 3
    /\ Document_metadata.added_new_keyword
    /\ Document_metadata.fields["coverage_type"].items = <<"life">>
    /\ Range(vocabFile["coverage_type"]) = {"life", "dental"}

\* C2: whenever the vocabulary file has been written, no attribute's list
\* in it holds a value twice.
VocabularyFileValuesUnique ==
    pc # "start" /\ vocabFile # NoFile =>
        \A a \in DOMAIN vocabFile : NoDup(vocabFile[a])

\* Pages i and j (0-based, after page 0) belong to the same batch.
SameBatch(i, j) == (i - 1) \div batch_size = (j - 1) \div batch_size

\* C3: a returned run made one seed call plus ceil(N/B) batch calls for the
\* N pages after page 0, and passages of pages of the same batch carry the
\* same extracted metadata.
BatchCallsAndMetadata ==
    /\ pc = "done" =>
          extractCalls = 1 + CeilDiv(Len(doc) - 1, batch_size)
    /\ \A i, j \in DOMAIN all_chunks :
          SameBatch(all_chunks[i].page_no, all_chunks[j].page_no)
              => all_chunks[i].meta = all_chunks[j].meta

\* C3 witness: a returned run of a 3-page document with batch size 2 whose
\* two later pages both produced passages.
TwoPagesInOneBatch ==
    /\ pc = "done"
    /\ Len(doc) = 3
    /\ batch_size = 2
    /\ \E i, j \in DOMAIN all_chunks :
          all_chunks[i].page_no = 1 /\ all_chunks[j].page_no = 2

\* C10: no two passages of all_chunks have the same chunk_id.
ChunkIdsUnique ==
    \A i, j \in DOMAIN all_chunks :
        i # j => all_chunks[i].chunk_id # all_chunks[j].chunk_id

(***************************************************************************)
(* Claims about rerank_documents, checked under SpecRerank.                *)
(***************************************************************************)
\* The response that lists the indices of idx, comma-separated.
FormatIndices(idx) == Join([k \in DOMAIN idx |-> Numeral(idx[k])])

NumCands == Len(retrieved_docs)

\* C4: when the response is a permutation p of 1..N, the call returns the
\* list of length N whose k-th element is candidate number p[k].
RerankFollowsPermutation ==
    rr_pc \in {"returned", "raised"} /\ NumCands >= 1 =>
        \A p \in Orderings(1..NumCands) :
            response = FormatIndices(p) =>
                /\ rr_pc = "returned"
                /\ Len(rr_result) = NumCands
                /\ \A k \in 1..NumCands : rr_result[k] = retrieved_docs[p[k]]

\* C4 witness: candidates [A,B,C] and the response "2,1,3" gave [B,A,C].
RerankedTwoOneThree ==
    /\ rr_pc = "returned"
    /\ retrieved_docs = <<"A", "B", "C">>
    /\ response = <<"2", ",", "1", ",", "3">>
    /\ rr_result = <<"B", "A", "C">>

\* The tokens of the response, read as the claim reads them: a token is bad
\* when it is no integer or an integer outside 1..N.
BadToken(tok) ==
    \/ ~ParseInt(tok).ok
    \/ ParseInt(tok).val < 1
    \/ ParseInt(tok).val > NumCands

\* C5: a response with a token that is no integer or an index outside 1..N
\* does not raise: the candidates are returned in their original order.
RerankFallsBackOnBadIndex ==
    (/\ rr_pc \in {"returned", "raised"}
     /\ \E k \in DOMAIN Split(response) : BadToken(Split(response)[k]))
        => rr_pc = "returned" /\ rr_result = retrieved_docs

\* C6: when the response lists in-range indices with a repetition, the
\* output has one element per listed index, in the order given.
RerankKeepsRepeatedIndices ==
    rr_pc \in {"returned", "raised"} =>
        \A n \in 2..MaxCands :
            \A s \in [1..n -> 1..NumCands] :
                (~NoDup(s) /\ response = FormatIndices(s)) =>
                    /\ rr_pc = "returned"
                    /\ Len(rr_result) = n
                    /\ \A k \in 1..n : rr_result[k] = retrieved_docs[s[k]]

\* C6 witness: candidates [A,B,C] and the response "2,2,1" gave [B,B,A].
RerankedTwoTwoOne ==
    /\ rr_pc = "returned"
    /\ retrieved_docs = <<"A", "B", "C">>
    /\ response = <<"2", ",", "2", ",", "1">>
    /\ rr_result = <<"B", "B", "A">>

(***************************************************************************)
(* Claims about query_document, checked under SpecQuery.                   *)
(***************************************************************************)
\* C7: once create_query_embedding has stored self.query_metadata, it holds
\* none of notes, added_new_keyword, obligations, exclusions, and every
\* other key of the formatted metadata with the same value.
QueryMetadataFiltered ==
    query_metadata # NoMetadata =>
        /\ "notes" \notin DOMAIN query_metadata
        /\ "added_new_keyword" \notin DOMAIN query_metadata
        /\ "obligations" \notin DOMAIN query_metadata
        /\ "exclusions" \notin DOMAIN query_metadata
        /\ \A k \in DOMAIN formatted_metadata :
              k \notin {"notes", "added_new_keyword", "obligations", "exclusions"}
                  => k \in DOMAIN query_metadata
                     /\ query_metadata[k] = formatted_metadata[k]

\* C7 witness: the formatted metadata held coverage_type, notes and
\* added_new_keyword, and only coverage_type was kept.
OnlyCoverageTypeKept ==
    /\ query_metadata # NoMetadata
    /\ DOMAIN formatted_metadata = {"coverage_type", "notes", "added_new_keyword"}
    /\ DOMAIN query_metadata = {"coverage_type"}
    /\ query_metadata["coverage_type"] = "life"

\* The query is empty or made of null bytes and whitespace only.
OnlyNulAndSpace(q) == \A i \in DOMAIN q : q[i] \in {"NUL", " "}

\* C8: for a query made of null bytes and whitespace only, no embedding,
\* extraction, lookup or answer call is ever made, and the response is a
\* rejection with status 400.
EmptyQueryDoesNoWork ==
    OnlyNulAndSpace(query) =>
        /\ work = NoWork
        /\ q_pc \in {"idle", "received", "responded"}
        /\ q_pc = "responded" => q_status = 400

\* C8 witness: in a session with a processed document, the query made of a
\* null byte and a space was rejected as empty.
NulSpaceQueryRejected ==
    /\ q_pc = "responded"
    /\ document_uploaded /\ vector_store_created
    /\ query = <<"NUL", " ">>
    /\ q_status = 400
    /\ q_detail = "Query cannot be empty"

(***************************************************************************)
(* Claims about EmbeddingModelSingleton, checked under SpecSingleton.      *)
(***************************************************************************)
\* C9: whatever the interleaving of the threads, load_llm is called at most
\* once, at most one instance is created, and all the threads that have
\* returned got the same instance and the same model.
SingletonBuiltOnce ==
    /\ loadCalls <= 1
    /\ instancesCreated <= 1
    /\ \A t, u \in callers :
          (t_pc[t] = "done" /\ t_pc[u] = "done") =>
              /\ t_model[t] = t_model[u]
              /\ t_model[t] # 0
              /\ t_self[t] = t_self[u]
              /\ t_self[t] # 0

\* C9 witness: two threads both saw no model at the unlocked check; one
\* loaded it, the other then got the lock and found the model present; both
\* have returned.
SecondCallerFoundModel ==
    \E t, u \in callers :
        /\ t # u
        /\ t_pc[t] = "done"
        /\ t_pc[u] = "get_recheck"
        /\ s_model[t_self[u]] # 0
        /\ loadCalls = 1

(***************************************************************************)
(* Claims about failures and persistence in text_splitting, checked under  *)
(* SpecIngest.                                                             *)
(***************************************************************************)
\* C11: when an extraction call raises, for page 0 or for a batch,
\* text_splitting is left by the exception: the run is at "failed", never at
\* "done" (no list of chunks is returned), and the vocabulary file holds what
\* the last completed write put there (nothing, when page 0 failed).  A run
\* that returns its chunks had no failed extraction call.
ExtractionFailureAborts ==
    /\ lastExtraction = "raised" =>
          /\ pc = "failed"
          /\ vocabFile = lastWrite
    /\ pc = "failed" => lastExtraction = "raised"
    /\ pc = "done" => lastExtraction = "ok"

\* C11 witness: the third extraction call raised after the batch before it
\* had written "dental" to the file and produced chunks.
FailedAfterBatchWrite ==
    /\ pc = "failed"
    /\ lastExtraction = "raised"
    /\ extractCalls = 3
    /\ vocabFile # NoFile
    /\ "dental" \in Range(Get(vocabFile, "coverage_type"))
    /\ all_chunks # <<>>

\* C14: after every step of a run that has not failed, the file holds
\* known_keywords (at the start of the next extraction call and when
\* text_splitting returns), and the known_keywords a batch's extraction call
\* is given has every value put into the vocabulary by the calls before it.
VocabularyPersisted ==
    [][/\ pc' \in {"batches", "done"} => known_keywords' = vocabFile'
       /\ (pc = "batches" /\ extractCalls' # extractCalls) =>
             \A a \in Attrs :
                 accepted[a] \subseteq Range(Get(passed_keywords', a))]_vars

\* C14 witness: the second batch's extraction call was given a vocabulary
\* with "dental", which the first batch had added to the seed vocabulary.
SecondBatchSawFirstBatchValue ==
    /\ pc = "batches"
    /\ extractCalls = 3
    /\ lastExtraction = "ok"
    /\ "dental" \in Range(Get(passed_keywords, "coverage_type"))
    /\ known_keywords = vocabFile

\* The chunks of page i (0-based) in all_chunks.
PassagesOfPage(i) == {k \in 1..Len(all_chunks) : all_chunks[k].page_no = i}

\* C15 (as stated): when text_splitting has returned, a page has no chunk
\* exactly when its stripped text is empty, page 0 included, and the chunks
\* are in the order of the pages.
EveryNonBlankPageHasPassages ==
    pc = "done" =>
        /\ \A i \in 0..(Len(doc) - 1) :
              (PassagesOfPage(i) = {}) <=> doc[i + 1].blank
        /\ \A k \in 1..(Len(all_chunks) - 1) :
              all_chunks[k].page_no <= all_chunks[k + 1].page_no

(***************************************************************************)
(* Claims about the session state, checked under SpecQuery.                *)
(***************************************************************************)
\* C12: no step of query_document, whether the call ends with an answer or
\* with a rejection or an error at any stage, changes the session's flags,
\* document_info, the service's chunks and vector store, or the vocabulary
\* file.
QueryLeavesIngestionState ==
    [][UNCHANGED <<document_uploaded, vector_store_created, document_info,
                   rag_chunks, rag_vector_store, q_vocabFile>>]_vars

\* C12 witness: a query on a session with a complete ingestion got through
\* the embedding and the retrieval and failed at the answer call.
QueryFailedAtAnswer ==
    /\ q_pc = "responded"
    /\ q_status = 500
    /\ work.answer = 1
    /\ work.lookup = 1
    /\ document_uploaded /\ vector_store_created
    /\ document_info # None
    /\ q_vocabFile # NoFile

(***************************************************************************)
(* Claims about two interleaved text_splitting runs, checked under         *)
(* SpecPair.                                                               *)
(***************************************************************************)
\* The sets of values of a vocabulary, per attribute.
ValueSets(voc) == [a \in Attrs |-> Range(Get(voc, a))]

\* C13 (as stated): two documents with different source identifiers have
\* different vocabulary files, and when both runs have returned, the file of
\* each document holds the values it would hold had the document been
\* ingested alone.
InterleavedRunsDoNotInterfere ==
    (\A r \in Runs : d_pc[r] = "done") =>
        /\ KeywordsFileName(d_source[1]) # KeywordsFileName(d_source[2])
        /\ \A r \in Runs :
              ValueSets(files[KeywordsFileName(d_source[r])]) = d_alone[r]

(***************************************************************************)
(* Claims about sanitize_filename, checked under SpecFilename.             *)
(***************************************************************************)
\* C19 (as stated): the name sanitize_filename returns is not empty, has no
\* "/", has only word characters, whitespace, "-" and ".", neither starts
\* nor ends with "." or " ", and has at most 255 characters.
SanitizedFilenameIsSafe ==
    fn_pc = "returned" =>
        /\ fn_result # <<>>
        /\ \A i \in 1..Len(fn_result) :
              fn_result[i] \in WordChars \cup SpaceChars \cup {"-", "."}
        /\ fn_result[1] \notin {".", " "}
        /\ fn_result[Len(fn_result)] \notin {".", " "}
        /\ Len(fn_result) <= NameLimit

(***************************************************************************)
(* Claims about the session routes, checked under SpecSession.             *)
(***************************************************************************)
\* The service of a session went through load_and_split_document and
\* create_vector_store.
FullyIngested(service) ==
    /\ service # None
    /\ service.chunks # None
    /\ service.vector_store # None
    /\ service.sparse_retriever # None

QueryOnlyOnReadySession ==
    last.op = "query" =>
        LET id == last.session_id
        IN  /\ last.rag_invoked =>
                  /\ validate_session_id(id)
                  /\ id \in DOMAIN sessions
                  /\ sessions[id].document_uploaded
                  /\ sessions[id].vector_store_created
            /\ ~validate_session_id(id) =>
                  last.status = 400 /\ ~last.rag_invoked
            /\ (validate_session_id(id) /\ id \notin DOMAIN sessions) =>
                  last.status = 404 /\ ~last.rag_invoked
            /\ (/\ validate_session_id(id)
                /\ id \in DOMAIN sessions
                /\ ~(sessions[id].document_uploaded /\
                     sessions[id].vector_store_created)) =>
                  last.status = 400 /\ ~last.rag_invoked

\* C18 witness: a query for an existing session without a processed
\* document was rejected with 400.
QueryRejectedNoDocument ==
    /\ last.op = "query"
    /\ last.session_id \in DOMAIN sessions
    /\ last.status = 400
    /\ last.detail = "No document uploaded or processed for this session"
    /\ ~last.rag_invoked

====
